---------------------------- MODULE Spec2Model ----------------------------
(***************************************************************************)
(* The discussion-board backend (src/backend/server.py): users, topics,    *)
(* topic memberships and tasks kept in a relational store, and the request *)
(* handlers that read and write them.  Every handler is one action that    *)
(* takes the authenticated actor and the request's parameters, performs    *)
(* the handler's checks in the handler's order and leaves the HTTP         *)
(* response in resp.  Where requests overlap, a handler is two actions,    *)
(* its lookup and its write, and the request is in flight in between.      *)
(*                                                                         *)
(* Tables without a uniqueness constraint (topic_members) are bags of      *)
(* rows; tables looked up by primary key (topics, tasks) are sets of rows  *)
(* whose id comes from a counter.                                          *)
(***************************************************************************)
EXTENDS Integers, Sequences, FiniteSets, Bags, TLC

VARIABLES
    users,        \* table users: rows [id, name, email, phone, auth_level]
    topics,       \* table topics: rows [id, name, creator_id]
    nextTopicId,  \* the next primary key of topics
    members,      \* table topic_members: a bag of rows [topic_id, user_id, role]
    tasks,        \* table tasks: rows [id, topic_id, title, ..., status]
    nextTaskId,   \* the next primary key of tasks
    req,          \* the request served last: [op, actor, args]
    resp,         \* its response: [code, detail, body]
    inflight      \* the requests that have run their lookup and not yet their
                  \* write: [pid, op, actor, args, found]

vars == <<users, topics, nextTopicId, members, tasks, nextTaskId, req, resp,
          inflight>>

db == <<users, topics, nextTopicId, members, tasks, nextTaskId>>

(***************************************************************************)
(* Bounds of the model.                                                    *)
(***************************************************************************)
\* topic ids the counter may hand out
MaxTopics == 2
\* task ids the counter may hand out where tasks are created, updated and deleted
MaxTasks == 2
\* longest worker_ids list of an assign request
MaxWorkers == 3

(***************************************************************************)
(* Enumerations and column values.                                         *)
(***************************************************************************)
SUPERUSER == "superuser"
USER == "user"

OWNER == "owner"
ADMIN == "admin"
MEMBER == "member"

TopicRole == {OWNER, ADMIN, MEMBER}

\* a NULL in an integer column (worker_id) or an absent integer field
NoneId == 0
\* a NULL in a text or datetime column
None == "None"

PENDING == "pending"

\* the user rows present once the service runs: the default superuser that
\* startup_event creates, and two users that registered (auth_level user)
InitialUsers ==
    { [id |-> 1, name |-> "Admin", email |-> "admin@example.com",
       phone |-> None, auth_level |-> SUPERUSER],
      [id |-> 2, name |-> "a", email |-> "a@example.com",
       phone |-> None, auth_level |-> USER],
      [id |-> 3, name |-> "b", email |-> "b@example.com",
       phone |-> None, auth_level |-> USER] }

\* ids of the user rows
UserIds == {u.id : u \in users}
\* an id that resolves to no user row
GhostId == 9
\* what a request may send as a topic id
TopicIds == 1..MaxTopics
\* what a request may send as a task id
TaskIds == 1..MaxTasks
\* the users that create and join topics; the superuser administers topics
\* without joining them
Joiners == {2, 3}

(***************************************************************************)
(* Queries.                                                                *)
(***************************************************************************)
\* db.query(User).filter(User.id == id).first(): the rows it may return
UserRows(id) == {u \in users : u.id = id}

\* current_user.auth_level == AuthLevel.SUPERUSER.value
IsSuperuser(a) == \E u \in users : u.id = a /\ u.auth_level = SUPERUSER

\* db.query(Topic).filter(Topic.id == t).first()
TopicRows(t) == {x \in topics : x.id = t}

\* db.query(TopicMember).filter(topic_id == t, user_id == u): the matching
\* rows; .first() returns one of them, in no stated order, or None
MembershipRows(m, t, u) ==
    {r \in BagToSet(m) : r.topic_id = t /\ r.user_id = u}

\* the results .first() may give: any matching row, or None (the empty set)
First(rows) == IF rows = {} THEN {{}} ELSE {{r} : r \in rows}

\* faulty variant of IsAdmin: any membership counts
IsAdminAnyRole(found) == found # {}

\* membership and membership.role in [OWNER, ADMIN]
IsAdmin(found) == \E r \in found : r.role \in {OWNER, ADMIN}

\* faulty variant of IsOwner: the role is compared with the wrong spelling
IsOwnerMisspelt(found) == \E r \in found : r.role = "Owner"

\* membership and membership.role == OWNER
IsOwner(found) == \E r \in found : r.role = OWNER

\* one row as a bag
Row(r) == SetToBag({r})

\* faulty variant of WithoutTopic: the delete does not cascade
WithoutTopicNoCascade(m, t) == m

\* the bag without the rows of topic t (cascade of Topic.members)
WithoutTopic(m, t) ==
    LET keep == {r \in BagToSet(m) : r.topic_id # t}
    IN  [r \in keep |-> m[r]]

\* HTTPException(status_code, detail)
Error(code, detail) == [code |-> code, detail |-> detail, body |-> <<>>]
\* a 200 response; body holds the rows the response model carries
Ok(detail, body) == [code |-> 200, detail |-> detail, body |-> body]
\* the handler op, called by actor a with the parameters args, answers r;
\* a handler that runs as one step touches no request in flight
Reply(op, a, args, r) ==
    /\ req' = [op |-> op, actor |-> a, args |-> args]
    /\ resp' = r
    /\ UNCHANGED inflight

(***************************************************************************)
(* Initial state: the store after startup and registration, no topics.     *)
(***************************************************************************)
Init ==
    /\ users = InitialUsers
    /\ topics = {}
    /\ nextTopicId = 1
    /\ members = EmptyBag
    /\ tasks = {}
    /\ nextTaskId = 1
    /\ req = [op |-> "startup", actor |-> 1, args |-> <<>>]
    /\ resp = Ok("started", <<>>)
    /\ inflight = {}

(***************************************************************************)
(* Topic endpoints.                                                        *)
(***************************************************************************)
\* POST /topics
CreateTopic(a, name) ==
    /\ topics' = topics \cup
          {[id |-> nextTopicId, name |-> name, creator_id |-> a]}
    /\ nextTopicId' = nextTopicId + 1
    /\ members' = members (+)
          Row([topic_id |-> nextTopicId, user_id |-> a, role |-> OWNER])
    /\ Reply("create_topic", a, <<name>>, Ok("topic_created",
                  <<[id |-> nextTopicId, creator_id |-> a, user_role |-> OWNER]>>))
    /\ UNCHANGED <<users, tasks, nextTaskId>>

\* faulty variant of DeleteTopic: an admin passes the owner check
DeleteTopicByAdmin(a, t) ==
    IF TopicRows(t) = {}
    THEN /\ Reply("delete_topic", a, <<t>>, Error(404, "Topic not found"))
         /\ UNCHANGED db
    ELSE \E membership \in First(MembershipRows(members, t, a)) :
           IF ~IsAdmin(membership) /\ ~IsSuperuser(a)
           THEN /\ Reply("delete_topic", a, <<t>>, Error(403, "Only owner can delete topic"))
                /\ UNCHANGED db
           ELSE /\ topics' = topics \ TopicRows(t)
                /\ members' = WithoutTopic(members, t)
                /\ tasks' = {k \in tasks : k.topic_id # t}
                /\ Reply("delete_topic", a, <<t>>, Ok("Topic deleted successfully", <<>>))
                /\ UNCHANGED <<users, nextTopicId, nextTaskId>>

\* DELETE /topics/{topic_id}
DeleteTopic(a, t) ==
    IF TopicRows(t) = {}
    THEN /\ Reply("delete_topic", a, <<t>>, Error(404, "Topic not found"))
         /\ UNCHANGED db
    ELSE \E membership \in First(MembershipRows(members, t, a)) :
           IF ~IsOwner(membership) /\ ~IsSuperuser(a)
           THEN /\ Reply("delete_topic", a, <<t>>, Error(403, "Only owner can delete topic"))
                /\ UNCHANGED db
           ELSE /\ topics' = topics \ TopicRows(t)
                /\ members' = WithoutTopic(members, t)
                /\ tasks' = {k \in tasks : k.topic_id # t}
                /\ Reply("delete_topic", a, <<t>>, Ok("Topic deleted successfully", <<>>))
                /\ UNCHANGED <<users, nextTopicId, nextTaskId>>

(***************************************************************************)
(* Topic member endpoints.                                                 *)
(***************************************************************************)
\* faulty variant of Subscribe: the existing membership is not looked up
SubscribeUnchecked(a, t) ==
    IF TopicRows(t) = {}
    THEN /\ Reply("subscribe_to_topic", a, <<t>>, Error(404, "Topic not found"))
         /\ UNCHANGED db
    ELSE /\ members' = members (+)
               Row([topic_id |-> t, user_id |-> a, role |-> MEMBER])
         /\ Reply("subscribe_to_topic", a, <<t>>, Ok("subscribed", <<[user_id |-> a, role |-> MEMBER]>>))
         /\ UNCHANGED <<users, topics, nextTopicId, tasks, nextTaskId>>

\* faulty variant of Subscribe: an existing membership is reset to member
SubscribeUpserts(a, t) ==
    IF TopicRows(t) = {}
    THEN /\ Reply("subscribe_to_topic", a, <<t>>, Error(404, "Topic not found"))
         /\ UNCHANGED db
    ELSE \E existing \in First(MembershipRows(members, t, a)) :
           /\ members' = (members (-) SetToBag(existing)) (+)
                 Row([topic_id |-> t, user_id |-> a, role |-> MEMBER])
           /\ Reply("subscribe_to_topic", a, <<t>>, Ok("subscribed", <<[user_id |-> a, role |-> MEMBER]>>))
           /\ UNCHANGED <<users, topics, nextTopicId, tasks, nextTaskId>>

\* POST /topics/{topic_id}/subscribe
Subscribe(a, t) ==
    IF TopicRows(t) = {}
    THEN /\ Reply("subscribe_to_topic", a, <<t>>, Error(404, "Topic not found"))
         /\ UNCHANGED db
    ELSE \E existing \in First(MembershipRows(members, t, a)) :
           IF existing # {}
           THEN /\ Reply("subscribe_to_topic", a, <<t>>, Error(400, "Already subscribed to this topic"))
                /\ UNCHANGED db
           ELSE /\ members' = members (+)
                      Row([topic_id |-> t, user_id |-> a, role |-> MEMBER])
                /\ Reply("subscribe_to_topic", a, <<t>>, Ok("subscribed", <<[user_id |-> a, role |-> MEMBER]>>))
                /\ UNCHANGED <<users, topics, nextTopicId, tasks, nextTaskId>>

\* faulty variant of Unsubscribe: the row is not deleted
UnsubscribeKeepsRow(a, t) ==
    \E membership \in First(MembershipRows(members, t, a)) :
      IF membership = {}
      THEN /\ Reply("unsubscribe_from_topic", a, <<t>>, Error(400, "Not subscribed to this topic"))
           /\ UNCHANGED db
      ELSE IF IsOwner(membership)
      THEN /\ Reply("unsubscribe_from_topic", a, <<t>>, Error(400, "Owner cannot unsubscribe"))
           /\ UNCHANGED db
      ELSE /\ Reply("unsubscribe_from_topic", a, <<t>>, Ok("Unsubscribed successfully", <<>>))
           /\ UNCHANGED db

\* DELETE /topics/{topic_id}/unsubscribe
Unsubscribe(a, t) ==
    \E membership \in First(MembershipRows(members, t, a)) :
      IF membership = {}
      THEN /\ Reply("unsubscribe_from_topic", a, <<t>>, Error(400, "Not subscribed to this topic"))
           /\ UNCHANGED db
      ELSE IF IsOwner(membership)
      THEN /\ Reply("unsubscribe_from_topic", a, <<t>>, Error(400, "Owner cannot unsubscribe"))
           /\ UNCHANGED db
      ELSE /\ members' = members (-) SetToBag(membership)
           /\ Reply("unsubscribe_from_topic", a, <<t>>, Ok("Unsubscribed successfully", <<>>))
           /\ UNCHANGED <<users, topics, nextTopicId, tasks, nextTaskId>>

\* faulty variant of AddMember: a row is inserted whether or not one exists
AddMemberInsertOnly(a, t, u, role) ==
    IF TopicRows(t) = {}
    THEN /\ Reply("add_member_to_topic", a, <<t, u, role>>, Error(404, "Topic not found"))
         /\ UNCHANGED db
    ELSE \E current_membership \in First(MembershipRows(members, t, a)) :
           IF ~IsAdmin(current_membership) /\ ~IsSuperuser(a)
           THEN /\ Reply("add_member_to_topic", a, <<t, u, role>>, Error(403, "Not authorized to add members"))
                /\ UNCHANGED db
           ELSE IF UserRows(u) = {}
           THEN /\ Reply("add_member_to_topic", a, <<t, u, role>>, Error(404, "User not found"))
                /\ UNCHANGED db
           ELSE /\ members' = members (+)
                      Row([topic_id |-> t, user_id |-> u, role |-> role])
                /\ Reply("add_member_to_topic", a, <<t, u, role>>, Ok("member_added", <<[user_id |-> u, role |-> role]>>))
                /\ UNCHANGED <<users, topics, nextTopicId, tasks, nextTaskId>>

\* POST /topics/{topic_id}/members
AddMember(a, t, u, role) ==
    IF TopicRows(t) = {}
    THEN /\ Reply("add_member_to_topic", a, <<t, u, role>>, Error(404, "Topic not found"))
         /\ UNCHANGED db
    ELSE \E current_membership \in First(MembershipRows(members, t, a)) :
           IF ~IsAdmin(current_membership) /\ ~IsSuperuser(a)
           THEN /\ Reply("add_member_to_topic", a, <<t, u, role>>, Error(403, "Not authorized to add members"))
                /\ UNCHANGED db
           ELSE IF UserRows(u) = {}
           THEN /\ Reply("add_member_to_topic", a, <<t, u, role>>, Error(404, "User not found"))
                /\ UNCHANGED db
           ELSE \E existing \in First(MembershipRows(members, t, u)) :
                  /\ members' =
                       IF existing # {}
                       THEN (members (-) SetToBag(existing)) (+)
                            Row([topic_id |-> t, user_id |-> u, role |-> role])
                       ELSE members (+)
                            Row([topic_id |-> t, user_id |-> u, role |-> role])
                  /\ Reply("add_member_to_topic", a, <<t, u, role>>, Ok("member_added", <<[user_id |-> u, role |-> role]>>))
                  /\ UNCHANGED <<users, topics, nextTopicId, tasks, nextTaskId>>

\* faulty variant of RemoveMember: the removed user's tasks lose their worker
RemoveMemberUnassigns(a, t, u) ==
    \E current_membership \in First(MembershipRows(members, t, a)) :
      IF ~IsAdmin(current_membership) /\ ~IsSuperuser(a)
      THEN /\ Reply("remove_member_from_topic", a, <<t, u>>, Error(403, "Not authorized to remove members"))
           /\ UNCHANGED db
      ELSE \E membership \in First(MembershipRows(members, t, u)) :
             IF membership = {}
             THEN /\ Reply("remove_member_from_topic", a, <<t, u>>, Error(404, "Member not found"))
                  /\ UNCHANGED db
             ELSE IF IsOwner(membership)
             THEN /\ Reply("remove_member_from_topic", a, <<t, u>>, Error(400, "Cannot remove owner"))
                  /\ UNCHANGED db
             ELSE /\ members' = members (-) SetToBag(membership)
                  /\ tasks' = {IF k.topic_id = t /\ k.worker_id = u
                               THEN [k EXCEPT !.worker_id = NoneId] ELSE k :
                               k \in tasks}
                  /\ Reply("remove_member_from_topic", a, <<t, u>>, Ok("Member removed successfully", <<>>))
                  /\ UNCHANGED <<users, topics, nextTopicId, nextTaskId>>

\* DELETE /topics/{topic_id}/members/{user_id}
RemoveMember(a, t, u) ==
    \E current_membership \in First(MembershipRows(members, t, a)) :
      IF ~IsAdmin(current_membership) /\ ~IsSuperuser(a)
      THEN /\ Reply("remove_member_from_topic", a, <<t, u>>, Error(403, "Not authorized to remove members"))
           /\ UNCHANGED db
      ELSE \E membership \in First(MembershipRows(members, t, u)) :
             IF membership = {}
             THEN /\ Reply("remove_member_from_topic", a, <<t, u>>, Error(404, "Member not found"))
                  /\ UNCHANGED db
             ELSE IF IsOwner(membership)
             THEN /\ Reply("remove_member_from_topic", a, <<t, u>>, Error(400, "Cannot remove owner"))
                  /\ UNCHANGED db
             ELSE /\ members' = members (-) SetToBag(membership)
                  /\ Reply("remove_member_from_topic", a, <<t, u>>, Ok("Member removed successfully", <<>>))
                  /\ UNCHANGED <<users, topics, nextTopicId, tasks, nextTaskId>>

(***************************************************************************)
(* Task endpoints.                                                         *)
(***************************************************************************)
\* the columns of a task row that a request may set
TaskFields ==
    {"title", "description", "worker_id", "start_time", "end_time", "status"}

\* Task(topic_id=..., title=..., ...): the row as inserted; status takes the
\* column default
NewTask(id, topic_id, src, worker_id, created_by_id) ==
    [id |-> id,
     topic_id |-> topic_id,
     title |-> src.title,
     description |-> src.description,
     worker_id |-> worker_id,
     created_by_id |-> created_by_id,
     start_time |-> src.start_time,
     end_time |-> src.end_time,
     status |-> PENDING]

\* db.query(Task).filter(Task.id == id).first()
TaskRows(id) == {k \in tasks : k.id = id}

\* faulty variant of CreateTask: the row is inserted before the worker is
\* looked up
CreateTaskWritesFirst(a, task_data) ==
    IF TopicRows(task_data.topic_id) = {}
    THEN /\ Reply("create_task", a, <<task_data>>, Error(404, "Topic not found"))
         /\ UNCHANGED db
    ELSE \E membership \in First(MembershipRows(members, task_data.topic_id, a)) :
           IF ~IsAdmin(membership) /\ ~IsSuperuser(a)
           THEN /\ Reply("create_task", a, <<task_data>>, Error(403, "Not authorized to create tasks"))
                /\ UNCHANGED db
           ELSE LET task == NewTask(nextTaskId, task_data.topic_id, task_data,
                                    task_data.worker_id, a)
                IN  /\ tasks' = tasks \cup {task}
                    /\ nextTaskId' = nextTaskId + 1
                    /\ UNCHANGED <<users, topics, nextTopicId, members>>
                    /\ IF /\ task_data.worker_id # NoneId
                          /\ MembershipRows(members, task_data.topic_id,
                                            task_data.worker_id) = {}
                       THEN Reply("create_task", a, <<task_data>>, Error(400, "Worker must be a topic member"))
                       ELSE Reply("create_task", a, <<task_data>>, Ok("task_created", <<task>>))

\* POST /tasks
CreateTask(a, task_data) ==
    IF TopicRows(task_data.topic_id) = {}
    THEN /\ Reply("create_task", a, <<task_data>>, Error(404, "Topic not found"))
         /\ UNCHANGED db
    ELSE \E membership \in First(MembershipRows(members, task_data.topic_id, a)) :
           IF ~IsAdmin(membership) /\ ~IsSuperuser(a)
           THEN /\ Reply("create_task", a, <<task_data>>, Error(403, "Not authorized to create tasks"))
                /\ UNCHANGED db
           ELSE IF /\ task_data.worker_id # NoneId
                   /\ MembershipRows(members, task_data.topic_id,
                                     task_data.worker_id) = {}
           THEN /\ Reply("create_task", a, <<task_data>>, Error(400, "Worker must be a topic member"))
                /\ UNCHANGED db
           ELSE LET task == NewTask(nextTaskId, task_data.topic_id, task_data,
                                    task_data.worker_id, a)
                IN  /\ tasks' = tasks \cup {task}
                    /\ nextTaskId' = nextTaskId + 1
                    /\ Reply("create_task", a, <<task_data>>, Ok("task_created", <<task>>))
                    /\ UNCHANGED <<users, topics, nextTopicId, members>>

\* faulty variant of StatusOnly: the title is let through as well
StatusAndTitle(update_data) ==
    [k \in DOMAIN update_data \cap {"status", "title"} |-> update_data[k]]

\* update_data restricted to what a worker may set
StatusOnly(update_data) ==
    [k \in DOMAIN update_data \cap {"status"} |-> update_data[k]]

\* faulty variant of SetAttrs: a completed task keeps its status
SetAttrsKeepsCompleted(task, update_data) ==
    [k \in DOMAIN task |->
        IF k \in DOMAIN update_data /\ ~(k = "status" /\ task[k] = "completed")
        THEN update_data[k] ELSE task[k]]

\* for key, value in update_data.items(): setattr(task, key, value)
SetAttrs(task, update_data) ==
    [k \in DOMAIN task |->
        IF k \in DOMAIN update_data THEN update_data[k] ELSE task[k]]

\* faulty variant of UpdateTask: the worker counts only while a member
UpdateTaskWorkerMustBeMember(a, id, task_data) ==
    IF TaskRows(id) = {}
    THEN /\ Reply("update_task", a, <<id, task_data>>, Error(404, "Task not found"))
         /\ UNCHANGED db
    ELSE \E task \in TaskRows(id) :
         \E membership \in First(MembershipRows(members, task.topic_id, a)) :
           LET is_admin == IsAdmin(membership)
               is_worker == task.worker_id = a /\ membership # {}
               is_superuser == IsSuperuser(a)
           IN  IF ~is_admin /\ ~is_worker /\ ~is_superuser
               THEN /\ Reply("update_task", a, <<id, task_data>>,
                             Error(403, "Not authorized to update this task"))
                    /\ UNCHANGED db
               ELSE LET update_data ==
                          IF is_worker /\ ~is_admin /\ ~is_superuser
                          THEN [k \in DOMAIN task_data \cap {"status"} |->
                                   task_data[k]]
                          ELSE task_data
                        updated ==
                          [k \in DOMAIN task |->
                             IF k \in DOMAIN update_data
                             THEN update_data[k] ELSE task[k]]
                    IN  /\ tasks' = (tasks \ {task}) \cup {updated}
                        /\ Reply("update_task", a, <<id, task_data>>, Ok("task_updated", <<updated>>))
                        /\ UNCHANGED <<users, topics, nextTopicId, members,
                                       nextTaskId>>

\* PUT /tasks/{task_id}; task_data holds the fields the request set
UpdateTask(a, id, task_data) ==
    IF TaskRows(id) = {}
    THEN /\ Reply("update_task", a, <<id, task_data>>, Error(404, "Task not found"))
         /\ UNCHANGED db
    ELSE \E task \in TaskRows(id) :
         \E membership \in First(MembershipRows(members, task.topic_id, a)) :
           LET is_admin == IsAdmin(membership)
               is_worker == task.worker_id = a
               is_superuser == IsSuperuser(a)
           IN  IF ~is_admin /\ ~is_worker /\ ~is_superuser
               THEN /\ Reply("update_task", a, <<id, task_data>>,
                             Error(403, "Not authorized to update this task"))
                    /\ UNCHANGED db
               ELSE LET update_data ==
                          IF is_worker /\ ~is_admin /\ ~is_superuser
                          THEN StatusOnly(task_data)
                          ELSE task_data
                        updated == SetAttrs(task, update_data)
                    IN  /\ tasks' = (tasks \ {task}) \cup {updated}
                        /\ Reply("update_task", a, <<id, task_data>>, Ok("task_updated", <<updated>>))
                        /\ UNCHANGED <<users, topics, nextTopicId, members,
                                       nextTaskId>>

\* faulty variant of DeleteTask: the tasks with the same title go as well
DeleteTaskWithCopies(a, id) ==
    IF TaskRows(id) = {}
    THEN /\ Reply("delete_task", a, <<id>>, Error(404, "Task not found"))
         /\ UNCHANGED db
    ELSE \E task \in TaskRows(id) :
         \E membership \in First(MembershipRows(members, task.topic_id, a)) :
           IF ~IsAdmin(membership) /\ ~IsSuperuser(a)
           THEN /\ Reply("delete_task", a, <<id>>,
                         Error(403, "Not authorized to delete this task"))
                /\ UNCHANGED db
           ELSE /\ tasks' = {k \in tasks : k.title # task.title}
                /\ Reply("delete_task", a, <<id>>, Ok("Task deleted successfully", <<>>))
                /\ UNCHANGED <<users, topics, nextTopicId, members, nextTaskId>>

\* DELETE /tasks/{task_id}
DeleteTask(a, id) ==
    IF TaskRows(id) = {}
    THEN /\ Reply("delete_task", a, <<id>>, Error(404, "Task not found"))
         /\ UNCHANGED db
    ELSE \E task \in TaskRows(id) :
         \E membership \in First(MembershipRows(members, task.topic_id, a)) :
           IF ~IsAdmin(membership) /\ ~IsSuperuser(a)
           THEN /\ Reply("delete_task", a, <<id>>,
                         Error(403, "Not authorized to delete this task"))
                /\ UNCHANGED db
           ELSE /\ tasks' = tasks \ {task}
                /\ Reply("delete_task", a, <<id>>, Ok("Task deleted successfully", <<>>))
                /\ UNCHANGED <<users, topics, nextTopicId, members, nextTaskId>>

\* faulty variant of AssignLoop: the first non-member ends the batch
RECURSIVE AssignLoopStopsAtNonMember(_, _, _, _, _)
AssignLoopStopsAtNonMember(task, a, worker_ids, next, created_tasks) ==
    IF worker_ids = <<>>
    THEN created_tasks
    ELSE LET worker_id == Head(worker_ids)
         IN  IF MembershipRows(members, task.topic_id, worker_id) = {}
             THEN created_tasks
             ELSE AssignLoopStopsAtNonMember(task, a, Tail(worker_ids), next + 1,
                             Append(created_tasks,
                                    NewTask(next, task.topic_id, task,
                                            worker_id, a)))

\* faulty variant of AssignLoop: the copies keep the source's creator and
\* status
RECURSIVE AssignLoopCopiesSource(_, _, _, _, _)
AssignLoopCopiesSource(task, a, worker_ids, next, created_tasks) ==
    IF worker_ids = <<>>
    THEN created_tasks
    ELSE LET worker_id == Head(worker_ids)
         IN  IF MembershipRows(members, task.topic_id, worker_id) = {}
             THEN AssignLoopCopiesSource(task, a, Tail(worker_ids), next,
                                         created_tasks)
             ELSE AssignLoopCopiesSource(task, a, Tail(worker_ids), next + 1,
                             Append(created_tasks,
                                    [task EXCEPT !.id = next,
                                                 !.worker_id = worker_id]))

\* the loop of assign_task_to_users over the worker ids left, in order:
\* created_tasks once the list is exhausted.  next is the id the store gives
\* the next row.
RECURSIVE AssignLoop(_, _, _, _, _)
AssignLoop(task, a, worker_ids, next, created_tasks) ==
    IF worker_ids = <<>>
    THEN created_tasks
    ELSE LET worker_id == Head(worker_ids)
         IN  IF MembershipRows(members, task.topic_id, worker_id) = {}
             THEN AssignLoop(task, a, Tail(worker_ids), next, created_tasks)
             ELSE AssignLoop(task, a, Tail(worker_ids), next + 1,
                             Append(created_tasks,
                                    NewTask(next, task.topic_id, task,
                                            worker_id, a)))

\* POST /tasks/{task_id}/assign
AssignTask(a, id, worker_ids) ==
    IF TaskRows(id) = {}
    THEN /\ Reply("assign_task_to_users", a, <<id, worker_ids>>, Error(404, "Task not found"))
         /\ UNCHANGED db
    ELSE \E task \in TaskRows(id) :
         \E membership \in First(MembershipRows(members, task.topic_id, a)) :
           IF ~IsAdmin(membership) /\ ~IsSuperuser(a)
           THEN /\ Reply("assign_task_to_users", a, <<id, worker_ids>>,
                         Error(403, "Not authorized to assign tasks"))
                /\ UNCHANGED db
           ELSE LET created_tasks ==
                        AssignLoop(task, a, worker_ids, nextTaskId, <<>>)
                IN  /\ tasks' = tasks \cup
                          {created_tasks[i] : i \in DOMAIN created_tasks}
                    /\ nextTaskId' = nextTaskId + Len(created_tasks)
                    /\ Reply("assign_task_to_users", a, <<id, worker_ids>>,
                             Ok("tasks_assigned", created_tasks))
                    /\ UNCHANGED <<users, topics, nextTopicId, members>>

(***************************************************************************)
(* The topic and membership requests, each served as one atomic step.      *)
(***************************************************************************)
TopicNames == {"general"}

Next ==
    \/ /\ nextTopicId <= MaxTopics
       /\ \E a \in Joiners, name \in TopicNames : CreateTopic(a, name)
    \/ \E a \in UserIds, t \in TopicIds : DeleteTopic(a, t)
    \/ \E a \in Joiners, t \in TopicIds : Subscribe(a, t)
    \/ \E a \in UserIds, t \in TopicIds : Unsubscribe(a, t)
    \/ \E a \in UserIds, t \in TopicIds, u \in Joiners \cup {GhostId},
          role \in TopicRole : AddMember(a, t, u, role)
    \/ \E a \in UserIds, t \in TopicIds, u \in Joiners \cup {GhostId} :
          RemoveMember(a, t, u)

Spec == Init /\ [][Next]_vars

(***************************************************************************)
(* The task requests.  The store holds two topics: topic 1, created by     *)
(* user 2, where user 3 was added as admin, and topic 2, created by user   *)
(* 3.  Tasks are created in topic 1; user 3 leaves and rejoins it.         *)
(***************************************************************************)
TaskTopic == 1

TwoTopics ==
    /\ users = InitialUsers
    /\ topics = { [id |-> 1, name |-> "general", creator_id |-> 2],
                  [id |-> 2, name |-> "general", creator_id |-> 3] }
    /\ nextTopicId = 3
    /\ members = SetToBag({ [topic_id |-> 1, user_id |-> 2, role |-> OWNER],
                            [topic_id |-> 1, user_id |-> 3, role |-> ADMIN],
                            [topic_id |-> 2, user_id |-> 3, role |-> OWNER] })
    /\ req = [op |-> "add_member_to_topic", actor |-> 2, args |-> <<1, 3, ADMIN>>]
    /\ resp = Ok("member_added", <<[user_id |-> 3, role |-> ADMIN]>>)
    /\ inflight = {}

InitTasks ==
    /\ TwoTopics
    /\ tasks = {}
    /\ nextTaskId = 1

\* the bodies of the create requests
CreatePayloads ==
    { [topic_id |-> TaskTopic, title |-> "t1", description |-> None,
       start_time |-> None, end_time |-> None, worker_id |-> w] :
         w \in {NoneId, 2, 3} }

\* the bodies of the update requests: only status; every field; only the worker
UpdatePayloads ==
    { [status |-> "completed"],
      [title |-> "t2", description |-> "d2", worker_id |-> 3,
       start_time |-> "s2", end_time |-> "e2", status |-> "completed"],
      [worker_id |-> NoneId] }

\* the worker_ids lists of up to n entries
RECURSIVE WorkerLists(_)
WorkerLists(n) ==
    IF n = 0
    THEN {<<>>}
    ELSE LET shorter == WorkerLists(n - 1)
         IN  shorter \cup
             {Append(ws, w) : ws \in shorter, w \in Joiners \cup {GhostId}}

\* the worker_ids lists of the assign requests
AllWorkerLists == WorkerLists(MaxWorkers)
\* those of one entry at most
ShortWorkerLists == WorkerLists(1)

NextTasks ==
    \/ \E a \in Joiners : Subscribe(a, TaskTopic)
    \/ \E a \in Joiners : Unsubscribe(a, TaskTopic)
    \/ /\ nextTaskId <= MaxTasks
       /\ \E a \in UserIds, task_data \in CreatePayloads : CreateTask(a, task_data)
    \/ \E a \in UserIds, id \in TaskIds, task_data \in UpdatePayloads :
          UpdateTask(a, id, task_data)
    \/ \E a \in UserIds, id \in TaskIds : DeleteTask(a, id)
    \/ \E a \in UserIds, id \in TaskIds, ws \in ShortWorkerLists :
          /\ AssignTask(a, id, ws)
          /\ nextTaskId' <= MaxTasks + 1

SpecTasks == InitTasks /\ [][NextTasks]_vars

(***************************************************************************)
(* One assign request on a given source task.  The store holds the two     *)
(* topics and one task of topic 1, as create_task and update_task leave    *)
(* it: created by the owner and still pending, or created by the           *)
(* superuser, edited and completed; with or without a worker.  User 3      *)
(* leaves and rejoins topic 1 before and after the request.                *)
(***************************************************************************)
SourceTasks ==
    { [id |-> 1, topic_id |-> TaskTopic, title |-> c[1], description |-> c[2],
       worker_id |-> w, created_by_id |-> c[5], start_time |-> c[3],
       end_time |-> c[4], status |-> c[6]] :
         c \in {<<"t1", None, None, None, 2, PENDING>>,
                <<"t2", "d2", "s2", "e2", 1, "completed">>},
         w \in {NoneId, 3} }

InitAssign ==
    /\ TwoTopics
    /\ \E source \in SourceTasks : tasks = {source}
    /\ nextTaskId = 2

\* task ids an assign request may name: the source, and one that is not there
AssignIds == {1, 2}

NextAssign ==
    \/ \E a \in Joiners : Subscribe(a, TaskTopic)
    \/ \E a \in Joiners : Unsubscribe(a, TaskTopic)
    \/ /\ Cardinality(tasks) = 1
       /\ \E a \in UserIds, id \in AssignIds, ws \in AllWorkerLists :
             AssignTask(a, id, ws)

SpecAssign == InitAssign /\ [][NextAssign]_vars

(***************************************************************************)
(* Vocabulary of the properties: what a store holds, said without the      *)
(* handlers' own queries.                                                  *)
(***************************************************************************)
\* the number of rows of the bag m that are in S
Count(m, S) == BagCardinality([r \in S \cap BagToSet(m) |-> m[r]])

\* the rows of topic t in m
RowsOf(m, t) == {r \in BagToSet(m) : r.topic_id = t}

\* the rows of the pair (t, u) in m
PairRows(m, t, u) == {r \in BagToSet(m) : r.topic_id = t /\ r.user_id = u}

\* user u holds, in topic t, one of the roles
HoldsRole(m, t, u, roles) ==
    \E r \in BagToSet(m) : r.topic_id = t /\ r.user_id = u /\ r.role \in roles

Superusers == {u.id : u \in {x \in users : x.auth_level = SUPERUSER}}

\* a is a superuser or holds role owner or admin in topic t
MayAdminister(a, t) ==
    a \in Superusers \/ HoldsRole(members, t, a, {OWNER, ADMIN})

ExistingTopicIds == {x.id : x \in topics}

(***************************************************************************)
(* C1.  Every existing topic has exactly one membership row whose role is  *)
(* owner, in every state the topic and membership requests reach.          *)
(* add_member_to_topic writes any role, owner included, so this fails.     *)
(***************************************************************************)
C1_ExactlyOneOwner ==
    \A x \in topics :
        Count(members, {r \in RowsOf(members, x.id) : r.role = OWNER}) = 1

(***************************************************************************)
(* C2.  An unsubscribe by an actor who holds role owner is answered 400    *)
(* and a remove-member whose target holds role owner is answered 400 (403  *)
(* when the caller may not remove members at all); neither changes the     *)
(* memberships.                                                            *)
(***************************************************************************)
C2_OwnerCannotLeaveOrBeRemoved ==
    [][ /\ ( /\ req'.op = "unsubscribe_from_topic"
             /\ HoldsRole(members, req'.args[1], req'.actor, {OWNER}) )
           => /\ resp'.code = 400
              /\ members' = members
        /\ ( /\ req'.op = "remove_member_from_topic"
             /\ HoldsRole(members, req'.args[1], req'.args[2], {OWNER}) )
           => /\ resp'.code =
                   IF MayAdminister(req'.actor, req'.args[1]) THEN 400 ELSE 403
              /\ members' = members
      ]_vars

\* the superuser asked to remove an owner and was refused
C2_Witness ==
    /\ req.op = "remove_member_from_topic"
    /\ req.actor \in Superusers
    /\ HoldsRole(members, req.args[1], req.args[2], {OWNER})
    /\ resp.code = 400

(***************************************************************************)
(* C3.  The creator of an existing topic holds a membership in it, in      *)
(* every state the topic and membership requests reach.  Once              *)
(* add_member_to_topic has rewritten the creator's role, the creator can   *)
(* unsubscribe or be removed, so this fails.                               *)
(***************************************************************************)
C3_CreatorKeepsMembership ==
    \A x \in topics : PairRows(members, x.id, x.creator_id) # {}

(***************************************************************************)
(* C4.  add_member_to_topic for an existing topic and user, by an actor    *)
(* who is a superuser or owner or admin of the topic, is answered 200;     *)
(* afterwards the user has exactly one row in the topic, with the          *)
(* requested role; the topic has as many rows as before when the user had  *)
(* one, and one more otherwise; every other row is unchanged.              *)
(***************************************************************************)
C4_AddMemberUpserts ==
    [][ req'.op = "add_member_to_topic" =>
          LET a == req'.actor
              t == req'.args[1]
              u == req'.args[2]
              role == req'.args[3]
              added == IF PairRows(members, t, u) = {} THEN 1 ELSE 0
          IN  (t \in ExistingTopicIds /\ u \in UserIds /\ MayAdminister(a, t))
              => /\ resp'.code = 200
                 /\ PairRows(members', t, u) =
                       {[topic_id |-> t, user_id |-> u, role |-> role]}
                 /\ Count(members', PairRows(members', t, u)) = 1
                 /\ Count(members', RowsOf(members', t)) =
                       Count(members, RowsOf(members, t)) + added
                 /\ \A r \in BagToSet(members) \cup BagToSet(members') :
                       (r.topic_id # t \/ r.user_id # u)
                       => CopiesIn(r, members') = CopiesIn(r, members)
      ]_vars

\* an owner or admin who is no superuser re-added themselves as member: the
\* row they held was rewritten
C4_Witness ==
    /\ req.op = "add_member_to_topic"
    /\ resp.code = 200
    /\ req.actor \notin Superusers
    /\ req.args[2] = req.actor
    /\ req.args[3] = MEMBER
    /\ Count(members, RowsOf(members, req.args[1])) = 2

(***************************************************************************)
(* C5.  With every request served as one atomic step, there is at most one *)
(* membership row for each (topic, user) pair.                             *)
(***************************************************************************)
C5_OneRowPerPair ==
    \A r \in BagToSet(members) :
        Count(members, PairRows(members, r.topic_id, r.user_id)) = 1

\* a second subscribe of a user who holds a row was refused
C5_Witness ==
    /\ req.op = "subscribe_to_topic"
    /\ resp.code = 400
    /\ PairRows(members, req.args[1], req.actor) # {}
    /\ Count(members, RowsOf(members, req.args[1])) = 2

(***************************************************************************)
(* Vocabulary of the task properties.                                      *)
(***************************************************************************)
\* the entries of worker_ids that hold a membership in topic t, in order
MemberEntries(worker_ids, t) ==
    SelectSeq(worker_ids, LAMBDA w : HoldsRole(members, t, w, TopicRole))

\* the task rows with id id, before the request
Stored(id) == {k \in tasks : k.id = id}

\* the columns a copy takes from its source
CopiedFields == {"topic_id", "title", "description", "start_time", "end_time"}

(***************************************************************************)
(* C6.  assign_task_to_users on an existing task by a superuser or owner   *)
(* or admin of its topic is answered 200 for every list of worker ids; it  *)
(* removes and changes no task (the source included), and it adds one task *)
(* per list entry that holds a membership in the source's topic, each with *)
(* an id no task had and no two alike, and none for the other entries.     *)
(***************************************************************************)
C6_AssignSkipsNonMembers ==
    [][ req'.op = "assign_task_to_users" =>
          \A source \in Stored(req'.args[1]) :
            MayAdminister(req'.actor, source.topic_id) =>
              LET worker_ids == req'.args[2]
                  kept == MemberEntries(worker_ids, source.topic_id)
                  new == tasks' \ tasks
              IN  /\ resp'.code = 200
                  /\ tasks \subseteq tasks'
                  /\ Cardinality(new) = Len(kept)
                  /\ Cardinality({k.id : k \in new}) = Len(kept)
                  /\ {k.id : k \in new} \cap {k.id : k \in tasks} = {}
                  /\ \A w \in UserIds \cup {GhostId, NoneId} :
                        Cardinality({k \in new : k.worker_id = w}) =
                        Cardinality({i \in DOMAIN kept : kept[i] = w})
      ]_vars

\* a list of three whose middle entry holds no membership gave two new tasks
\* beside the source
C6_Witness ==
    /\ req.op = "assign_task_to_users"
    /\ resp.code = 200
    /\ Len(req.args[2]) = 3
    /\ HoldsRole(members, TaskTopic, req.args[2][1], TopicRole)
    /\ ~HoldsRole(members, TaskTopic, req.args[2][2], TopicRole)
    /\ HoldsRole(members, TaskTopic, req.args[2][3], TopicRole)
    /\ Cardinality(tasks) = 3
    /\ Stored(req.args[1]) # {}

(***************************************************************************)
(* C7.  The list a successful assign_task_to_users returns is the list of  *)
(* worker ids without the entries that hold no membership, in the same     *)
(* order: the task at each position is stored, has that entry as worker,   *)
(* the source's topic, title, description, start and end time, the actor   *)
(* as creator and status pending.                                          *)
(***************************************************************************)
C7_AssignReturnsCopiesInOrder ==
    [][ (req'.op = "assign_task_to_users" /\ resp'.code = 200) =>
          \A source \in Stored(req'.args[1]) :
              LET kept == MemberEntries(req'.args[2], source.topic_id)
                  created_tasks == resp'.body
              IN  /\ Len(created_tasks) = Len(kept)
                  /\ \A i \in DOMAIN created_tasks :
                        /\ created_tasks[i] \in tasks' \ tasks
                        /\ created_tasks[i].worker_id = kept[i]
                        /\ \A f \in CopiedFields :
                              created_tasks[i][f] = source[f]
                        /\ created_tasks[i].created_by_id = req'.actor
                        /\ created_tasks[i].status = PENDING
      ]_vars

\* two copies came back in list order, of a completed source that another
\* user created
C7_Witness ==
    /\ req.op = "assign_task_to_users"
    /\ resp.code = 200
    /\ req.args[2] = <<3, GhostId, 2>>
    /\ Len(resp.body) = 2
    /\ resp.body[1].worker_id = 3
    /\ resp.body[2].worker_id = 2
    /\ \E source \in Stored(req.args[1]) :
          /\ source.status # PENDING
          /\ source.created_by_id # req.actor
          /\ resp.body[1].title = source.title

(***************************************************************************)
(* C8.  A create_task, delete_task or assign_task_to_users request leaves  *)
(* the tasks as they were unless the actor is a superuser or holds role    *)
(* owner or admin in the task's topic when the request is served; from any *)
(* other actor, for an existing topic or task, it is answered 403.         *)
(***************************************************************************)
C8_TaskWritesNeedPrivilege ==
    [][ /\ req'.op = "create_task" =>
             LET t == req'.args[1].topic_id
             IN  ~MayAdminister(req'.actor, t) =>
                   /\ tasks' = tasks
                   /\ t \in ExistingTopicIds => resp'.code = 403
        /\ req'.op \in {"delete_task", "assign_task_to_users"} =>
             /\ Stored(req'.args[1]) = {} => tasks' = tasks
             /\ \A task \in Stored(req'.args[1]) :
                   ~MayAdminister(req'.actor, task.topic_id) =>
                      /\ tasks' = tasks
                      /\ resp'.code = 403
      ]_vars

\* a plain member asked to delete a task and was refused
C8_Witness ==
    /\ req.op = "delete_task"
    /\ resp.code = 403
    /\ \E task \in Stored(req.args[1]) :
          HoldsRole(members, task.topic_id, req.actor, {MEMBER})

(***************************************************************************)
(* C9.  update_task on an existing task is answered 200 for its worker     *)
(* and for a superuser, owner or admin of its topic.  The row stays under  *)
(* its id; for an actor who is only the worker, status takes the sent      *)
(* value if one was sent and every other column keeps its value; for a     *)
(* superuser, owner or admin every sent column takes the sent value and    *)
(* the others keep theirs.  No other task changes.                         *)
(***************************************************************************)
C9_WorkerSetsStatusOnly ==
    [][ req'.op = "update_task" =>
          \A task \in Stored(req'.args[1]) :
            LET a == req'.actor
                sent == req'.args[2]
                privileged == MayAdminister(a, task.topic_id)
                applied == IF privileged THEN DOMAIN sent
                           ELSE DOMAIN sent \cap {"status"}
            IN  (privileged \/ task.worker_id = a) =>
                  /\ resp'.code = 200
                  /\ tasks \ {task} \subseteq tasks'
                  /\ Cardinality(tasks') = Cardinality(tasks)
                  /\ \E updated \in tasks' :
                        /\ updated.id = task.id
                        /\ \A f \in DOMAIN task :
                              updated[f] =
                                IF f \in applied THEN sent[f] ELSE task[f]
      ]_vars

\* a worker who may not administer the topic sent every field: the status
\* changed and the title did not
C9_Witness ==
    /\ req.op = "update_task"
    /\ resp.code = 200
    /\ DOMAIN req.args[2] = TaskFields
    /\ resp.body[1].worker_id = req.actor
    /\ ~MayAdminister(req.actor, resp.body[1].topic_id)
    /\ resp.body[1].title # req.args[2].title
    /\ resp.body[1].status = req.args[2].status

(***************************************************************************)
(* C10.  update_task on an existing task by an actor who is no superuser,  *)
(* holds neither owner nor admin in the task's topic and is not the task's *)
(* worker is answered 403 and changes no task; by the task's worker it is  *)
(* answered 200 even when the worker holds no membership in the topic.     *)
(***************************************************************************)
C10_UpdateNeedsRoleOrWorker ==
    [][ req'.op = "update_task" =>
          \A task \in Stored(req'.args[1]) :
            /\ ( /\ req'.actor \notin Superusers
                 /\ ~HoldsRole(members, task.topic_id, req'.actor, {OWNER, ADMIN})
                 /\ task.worker_id # req'.actor )
               => /\ resp'.code = 403
                  /\ tasks' = tasks
            /\ ( /\ task.worker_id = req'.actor
                 /\ ~HoldsRole(members, task.topic_id, req'.actor, TopicRole) )
               => resp'.code = 200
      ]_vars

\* a worker who left the topic updated their task
C10_Witness ==
    /\ req.op = "update_task"
    /\ resp.code = 200
    /\ req.actor \notin Superusers
    /\ resp.body[1].worker_id = req.actor
    /\ ~HoldsRole(members, resp.body[1].topic_id, req.actor, TopicRole)

(***************************************************************************)
(* C11.  A successful create_task that names a worker, a successful        *)
(* update_task whose sent worker_id is applied, and every copy made by     *)
(* assign_task_to_users set as worker a user who holds a membership in the *)
(* task's topic when the request is served; a create_task naming a worker  *)
(* without membership is answered 400 and creates no task.  update_task    *)
(* applies a sent worker_id without looking up the membership, so this     *)
(* fails.                                                                  *)
(***************************************************************************)
C11_WorkerIsMember ==
    [][ /\ req'.op = "create_task" =>
             LET t == req'.args[1].topic_id
                 w == req'.args[1].worker_id
             IN  (w # NoneId /\ MayAdminister(req'.actor, t)
                    /\ t \in ExistingTopicIds) =>
                   IF HoldsRole(members, t, w, TopicRole)
                   THEN resp'.code = 200
                   ELSE resp'.code = 400 /\ tasks' = tasks
        /\ (req'.op = "update_task" /\ resp'.code = 200) =>
             \A task \in Stored(req'.args[1]) :
               LET sent == req'.args[2]
               IN  ( /\ MayAdminister(req'.actor, task.topic_id)
                     /\ "worker_id" \in DOMAIN sent
                     /\ sent.worker_id # NoneId )
                   => HoldsRole(members, task.topic_id, sent.worker_id,
                                TopicRole)
        /\ (req'.op = "assign_task_to_users" /\ resp'.code = 200) =>
             \A i \in DOMAIN resp'.body :
                HoldsRole(members, resp'.body[i].topic_id,
                          resp'.body[i].worker_id, TopicRole)
      ]_vars

(***************************************************************************)
(* Reads of a topic.                                                       *)
(***************************************************************************)
\* GET /topics/{topic_id}
GetTopic(a, t) ==
    IF TopicRows(t) = {}
    THEN /\ Reply("get_topic", a, <<t>>, Error(404, "Topic not found"))
         /\ UNCHANGED db
    ELSE \E topic \in TopicRows(t) :
         \E user_membership \in First(MembershipRows(members, t, a)) :
           /\ Reply("get_topic", a, <<t>>, Ok("topic",
                 <<[id |-> topic.id,
                    name |-> topic.name,
                    creator_id |-> topic.creator_id,
                    member_count |->
                       BagCardinality(members (-) WithoutTopic(members, t)),
                    task_count |->
                       Cardinality({k \in tasks : k.topic_id = t}),
                    user_role |->
                       IF user_membership = {} THEN None
                       ELSE (CHOOSE r \in user_membership : TRUE).role]>>))
           /\ UNCHANGED db

\* GET /topics/{topic_id}/tasks; .all() gives the rows in no stated order,
\* the body holds them as a set
GetTopicTasks(a, t) ==
    IF TopicRows(t) = {}
    THEN /\ Reply("get_topic_tasks", a, <<t>>, Error(404, "Topic not found"))
         /\ UNCHANGED db
    ELSE /\ Reply("get_topic_tasks", a, <<t>>,
                  Ok("topic_tasks", <<{k \in tasks : k.topic_id = t}>>))
         /\ UNCHANGED db

(***************************************************************************)
(* Deleting topics that hold members and tasks.  The store holds the two   *)
(* topics, a task in each; users join and leave, topics are read and       *)
(* deleted.                                                                *)
(***************************************************************************)
TopicTasks ==
    { [id |-> t, topic_id |-> t, title |-> "t1", description |-> None,
       worker_id |-> 3, created_by_id |-> 3, start_time |-> None,
       end_time |-> None, status |-> PENDING] : t \in {1, 2} }

InitDelete ==
    /\ TwoTopics
    /\ tasks = TopicTasks
    /\ nextTaskId = 3

NextDelete ==
    \/ \E a \in Joiners, t \in TopicIds : Subscribe(a, t)
    \/ \E a \in Joiners, t \in TopicIds : Unsubscribe(a, t)
    \/ \E a \in UserIds, t \in TopicIds : DeleteTopic(a, t)
    \/ \E a \in UserIds, t \in TopicIds : GetTopic(a, t)
    \/ \E a \in UserIds, t \in TopicIds : GetTopicTasks(a, t)

SpecDelete == InitDelete /\ [][NextDelete]_vars

\* the membership rows and task rows of the topics other than t
RowsElsewhere(m, t) == [r \in {x \in BagToSet(m) : x.topic_id # t} |-> m[r]]
TasksElsewhere(ks, t) == {k \in ks : k.topic_id # t}

(***************************************************************************)
(* C12.  A delete_topic of topic T answered 200 removes T's row, every     *)
(* membership row and every task row of T, and leaves the rows of every    *)
(* other topic as they were; in every state no membership or task row      *)
(* refers to a topic that does not exist, and get_topic and                *)
(* get_topic_tasks of a topic that does not exist answer 404.              *)
(***************************************************************************)
C12_DeleteTopicCascades ==
    [][ /\ \A r \in BagToSet(members') : r.topic_id \in ExistingTopicIds'
        /\ \A k \in tasks' : k.topic_id \in ExistingTopicIds'
        /\ (req'.op = "delete_topic" /\ resp'.code = 200) =>
             LET t == req'.args[1]
             IN  /\ t \in ExistingTopicIds
                 /\ topics' = {x \in topics : x.id # t}
                 /\ RowsOf(members', t) = {}
                 /\ RowsElsewhere(members', t) = RowsElsewhere(members, t)
                 /\ {k \in tasks' : k.topic_id = t} = {}
                 /\ TasksElsewhere(tasks', t) = TasksElsewhere(tasks, t)
        /\ ( /\ req'.op \in {"get_topic", "get_topic_tasks"}
             /\ req'.args[1] \notin ExistingTopicIds )
           => resp'.code = 404
      ]_vars

\* topic 1 was deleted with its rows, its tasks are reported not found, and
\* topic 2 keeps its member and its task
C12_Witness ==
    /\ req.op = "get_topic_tasks"
    /\ req.args[1] = 1
    /\ resp.code = 404
    /\ ExistingTopicIds = {2}
    /\ RowsOf(members, 1) = {}
    /\ RowsOf(members, 2) # {}
    /\ tasks = TasksElsewhere(TopicTasks, 1)

(***************************************************************************)
(* C13.  A topic row disappears only in a delete_topic step whose actor is *)
(* a superuser or holds role owner in the topic; delete_topic of an        *)
(* existing topic by any other actor is answered 403 and changes no topic, *)
(* membership or task.                                                     *)
(***************************************************************************)
C13_DeleteNeedsOwner ==
    [][ /\ \A x \in topics \ topics' :
              /\ req'.op = "delete_topic"
              /\ req'.args[1] = x.id
              /\ \/ req'.actor \in Superusers
                 \/ HoldsRole(members, x.id, req'.actor, {OWNER})
        /\ ( /\ req'.op = "delete_topic"
             /\ req'.args[1] \in ExistingTopicIds
             /\ req'.actor \notin Superusers
             /\ ~HoldsRole(members, req'.args[1], req'.actor, {OWNER}) )
           => /\ resp'.code = 403
              /\ topics' = topics
              /\ members' = members
              /\ tasks' = tasks
      ]_vars

\* an admin of a topic that holds a task asked to delete it and was refused
C13_Witness ==
    /\ req.op = "delete_topic"
    /\ resp.code = 403
    /\ HoldsRole(members, req.args[1], req.actor, {ADMIN})
    /\ \E k \in tasks : k.topic_id = req.args[1]

(***************************************************************************)
(* Updating a topic.                                                       *)
(***************************************************************************)
\* PUT /topics/{topic_id}; topic_data holds the fields the request set
UpdateTopic(a, t, topic_data) ==
    IF TopicRows(t) = {}
    THEN /\ Reply("update_topic", a, <<t, topic_data>>, Error(404, "Topic not found"))
         /\ UNCHANGED db
    ELSE \E topic \in TopicRows(t) :
         \E membership \in First(MembershipRows(members, t, a)) :
           IF ~IsAdmin(membership) /\ ~IsSuperuser(a)
           THEN /\ Reply("update_topic", a, <<t, topic_data>>,
                         Error(403, "Not authorized to update this topic"))
                /\ UNCHANGED db
           ELSE LET updated == SetAttrs(topic, topic_data)
                IN  /\ topics' = (topics \ {topic}) \cup {updated}
                    /\ Reply("update_topic", a, <<t, topic_data>>, Ok("topic_updated",
                          <<[id |-> updated.id,
                             name |-> updated.name,
                             creator_id |-> updated.creator_id,
                             user_role |->
                                IF membership = {} THEN None
                                ELSE (CHOOSE r \in membership : TRUE).role]>>))
                    /\ UNCHANGED <<users, nextTopicId, members, tasks,
                                   nextTaskId>>

(***************************************************************************)
(* Managing a topic.  The store holds the two topics; users join and leave *)
(* topic 1, its members are added and removed, topics are renamed.         *)
(***************************************************************************)
\* the bodies of the update requests: a new name; no field
TopicPayloads == {[name |-> "renamed"], <<>>}

NextManage ==
    \/ \E a \in Joiners : Subscribe(a, TaskTopic)
    \/ \E a \in Joiners : Unsubscribe(a, TaskTopic)
    \/ \E a \in UserIds, t \in TopicIds, topic_data \in TopicPayloads :
          UpdateTopic(a, t, topic_data)
    \/ \E a \in UserIds, u \in Joiners \cup {GhostId}, role \in TopicRole :
          AddMember(a, TaskTopic, u, role)
    \/ \E a \in UserIds, u \in Joiners \cup {GhostId} :
          RemoveMember(a, TaskTopic, u)

SpecManage == InitTasks /\ [][NextManage]_vars

(***************************************************************************)
(* C14.  An update_topic, add_member_to_topic or remove_member_from_topic  *)
(* request changes a topic or a membership only when its actor is a        *)
(* superuser or holds role owner or admin in the topic; on an existing     *)
(* topic, from any other actor, it is answered 403 and topics and          *)
(* memberships stay as they were.                                          *)
(***************************************************************************)
C14_TopicWritesNeedPrivilege ==
    [][ req'.op \in {"update_topic", "add_member_to_topic",
                     "remove_member_from_topic"} =>
          LET t == req'.args[1]
          IN  ~MayAdminister(req'.actor, t) =>
                 /\ topics' = topics
                 /\ members' = members
                 /\ t \in ExistingTopicIds => resp'.code = 403
      ]_vars

\* a plain member asked to rename the topic and was refused
C14_Witness ==
    /\ req.op = "update_topic"
    /\ resp.code = 403
    /\ HoldsRole(members, req.args[1], req.actor, {MEMBER})
    /\ DOMAIN req.args[2] = {"name"}
    /\ \A x \in topics : x.name # req.args[2].name

(***************************************************************************)
(* User endpoints.  register looks the email up and inserts the row in a   *)
(* later commit; between the two another request may run, so register is   *)
(* two steps, the request being in flight in between.                      *)
(***************************************************************************)
\* user rows the store may hold where users register
MaxUsers == 5

\* the requests that may be in flight at once
Pids == {1, 2}

\* the pids of the requests in flight
Busy == {f.pid : f \in inflight}

\* the autoincrement primary key of the next user row; no row is deleted
NextUserId == Cardinality(users) + 1

\* db.query(User).filter(User.email == email).first()
EmailRows(email) == {u \in users : u.email = email}

\* POST /auth/register, up to the lookup of the email
RegisterLookup(p, user_data) ==
    /\ p \notin Busy
    /\ IF EmailRows(user_data.email) # {}
       THEN /\ req' = [op |-> "register", actor |-> NoneId, args |-> <<user_data>>]
            /\ resp' = Error(400, "Email already registered")
            /\ UNCHANGED <<db, inflight>>
       ELSE /\ inflight' = inflight \cup
                  {[pid |-> p, op |-> "register", actor |-> NoneId,
                    args |-> <<user_data>>, found |-> {}]}
            /\ UNCHANGED <<db, req, resp>>

\* faulty variant of RegisterCommit: the email column is not unique
RegisterCommitNotUnique(p) ==
    \E f \in inflight :
      /\ f.pid = p
      /\ f.op = "register"
      /\ inflight' = inflight \ {f}
      /\ req' = [op |-> f.op, actor |-> f.actor, args |-> f.args]
      /\ LET user_data == f.args[1]
             user == [id |-> NextUserId, name |-> user_data.name,
                      email |-> user_data.email, phone |-> user_data.phone,
                      auth_level |-> USER]
         IN  /\ users' = users \cup {user}
             /\ resp' = Ok("registered", <<user>>)
             /\ UNCHANGED <<topics, nextTopicId, members, tasks, nextTaskId>>

\* POST /auth/register, from db.add(user) on: the commit fails on the unique
\* index of users.email when a row with the email exists by now, and the
\* request ends with an unhandled error
RegisterCommit(p) ==
    \E f \in inflight :
      /\ f.pid = p
      /\ f.op = "register"
      /\ inflight' = inflight \ {f}
      /\ req' = [op |-> f.op, actor |-> f.actor, args |-> f.args]
      /\ LET user_data == f.args[1]
             user == [id |-> NextUserId, name |-> user_data.name,
                      email |-> user_data.email, phone |-> user_data.phone,
                      auth_level |-> USER]
         IN  IF EmailRows(user_data.email) # {}
             THEN /\ resp' = Error(500, "Internal Server Error")
                  /\ UNCHANGED db
             ELSE /\ users' = users \cup {user}
                  /\ resp' = Ok("registered", <<user>>)
                  /\ UNCHANGED <<topics, nextTopicId, members, tasks,
                                 nextTaskId>>

\* faulty variant of DropAuthLevel: the sent auth_level stays
KeepAuthLevel(update_data) == update_data

\* del update_data["auth_level"]
DropAuthLevel(update_data) ==
    [k \in DOMAIN update_data \ {"auth_level"} |-> update_data[k]]

\* PUT /users/{user_id}; user_data holds the fields the request set
UpdateUser(a, user_id, user_data) ==
    IF a # user_id /\ ~IsSuperuser(a)
    THEN /\ Reply("update_user", a, <<user_id, user_data>>,
                  Error(403, "Not authorized to update this user"))
         /\ UNCHANGED db
    ELSE IF UserRows(user_id) = {}
    THEN /\ Reply("update_user", a, <<user_id, user_data>>, Error(404, "User not found"))
         /\ UNCHANGED db
    ELSE \E user \in UserRows(user_id) :
           LET update_data ==
                 IF "auth_level" \in DOMAIN user_data /\ ~IsSuperuser(a)
                 THEN DropAuthLevel(user_data)
                 ELSE user_data
               updated == SetAttrs(user, update_data)
           IN  /\ users' = (users \ {user}) \cup {updated}
               /\ Reply("update_user", a, <<user_id, user_data>>, Ok("user_updated", <<updated>>))
               /\ UNCHANGED <<topics, nextTopicId, members, tasks, nextTaskId>>

(***************************************************************************)
(* The user requests: registrations that overlap, and updates of users.    *)
(***************************************************************************)
\* the bodies of the register requests: an email in use; a new email
RegisterPayloads ==
    { [name |-> "c", email |-> e, phone |-> None] :
         e \in {"a@example.com", "c@example.com"} }

\* the bodies of the update requests: a name and a raised auth_level; a
\* lowered auth_level
UserPayloads ==
    { [name |-> "n2", auth_level |-> SUPERUSER], [auth_level |-> USER] }

NextUsers ==
    \/ \E p \in Pids, user_data \in RegisterPayloads :
          RegisterLookup(p, user_data)
    \/ /\ Cardinality(users) < MaxUsers
       /\ \E p \in Pids : RegisterCommit(p)
    \/ \E a \in UserIds, user_id \in UserIds \cup {GhostId},
          user_data \in UserPayloads : UpdateUser(a, user_id, user_data)

SpecUsers == Init /\ [][NextUsers]_vars

\* the step answered a request: it put none in flight
Answered == inflight' \subseteq inflight

(***************************************************************************)
(* C15.  No two user rows have the same email, however register requests   *)
(* follow or overlap one another; a register that is answered while a user *)
(* row holds its email is answered with an error (400 from the lookup, 500 *)
(* from the commit) and leaves the user rows as they were.                 *)
(***************************************************************************)
C15_EmailsAreUnique ==
    [][ /\ \A u \in users', v \in users' : u.email = v.email => u = v
        /\ ( /\ req'.op = "register"
             /\ Answered
             /\ \E u \in users : u.email = req'.args[1].email )
           => /\ resp'.code \in {400, 500}
              /\ users' = users
      ]_vars

\* of two overlapping registrations of one email, the second to commit failed
\* and the first one's row is the only one with the email
C15_Witness ==
    /\ req.op = "register"
    /\ resp.code = 500
    /\ Cardinality({u \in users : u.email = req.args[1].email}) = 1
    /\ Cardinality(users) = Cardinality(InitialUsers) + 1

(***************************************************************************)
(* C16.  The auth_level of a user row changes only in an update_user step  *)
(* whose actor is a superuser; a row that register adds has level user;    *)
(* update_user by a non-superuser on their own row is answered 200 and     *)
(* applies every sent field but auth_level; update_user by a non-superuser *)
(* on another user's row is answered 403 and changes no user row.          *)
(***************************************************************************)
C16_OnlySuperuserSetsAuthLevel ==
    [][ /\ \A u \in users, v \in users' :
              (u.id = v.id /\ u.auth_level # v.auth_level) =>
                 /\ req'.op = "update_user"
                 /\ req'.args[1] = u.id
                 /\ req'.actor \in Superusers
        /\ \A v \in users' : v.id \notin UserIds => v.auth_level = USER
        /\ (req'.op = "update_user" /\ req'.actor \notin Superusers) =>
             LET a == req'.actor
                 sent == req'.args[2]
             IN  IF req'.args[1] = a
                 THEN \A user \in {u \in users : u.id = a} :
                        /\ resp'.code = 200
                        /\ users' = (users \ {user}) \cup
                              {[k \in DOMAIN user |->
                                  IF k \in DOMAIN sent /\ k # "auth_level"
                                  THEN sent[k] ELSE user[k]]}
                 ELSE /\ resp'.code = 403
                      /\ users' = users
      ]_vars

\* a user sent a name and auth_level superuser for their own row: the name
\* was set and the level stayed user
C16_Witness ==
    /\ req.op = "update_user"
    /\ resp.code = 200
    /\ req.actor \notin Superusers
    /\ req.args[1] = req.actor
    /\ DOMAIN req.args[2] = {"name", "auth_level"}
    /\ req.args[2].auth_level = SUPERUSER
    /\ resp.body[1].name = req.args[2].name
    /\ resp.body[1].auth_level = USER

\* the membership row of user u in topic t with the role, as a bag
OneRow(t, u, role) ==
    SetToBag({[topic_id |-> t, user_id |-> u, role |-> role]})

(***************************************************************************)
(* C17.  subscribe_to_topic on an existing topic by a user without a       *)
(* membership in it is answered 200 and adds one row (topic, actor,        *)
(* member) to the memberships and nothing else; by a user who holds a      *)
(* membership it is answered 400 and the memberships stay as they were.    *)
(***************************************************************************)
C17_SubscribeAddsMemberOnce ==
    [][ (req'.op = "subscribe_to_topic" /\ req'.args[1] \in ExistingTopicIds) =>
          LET a == req'.actor
              t == req'.args[1]
          IN  IF PairRows(members, t, a) = {}
              THEN /\ resp'.code = 200
                   /\ members' = members (+) OneRow(t, a, MEMBER)
              ELSE /\ resp'.code = 400
                   /\ members' = members
      ]_vars

\* an admin of the topic subscribed to it, was refused and is still admin
C17_Witness ==
    /\ req.op = "subscribe_to_topic"
    /\ resp.code = 400
    /\ PairRows(members, req.args[1], req.actor) =
          {[topic_id |-> req.args[1], user_id |-> req.actor, role |-> ADMIN]}

(***************************************************************************)
(* C18.  When the request served after a successful subscribe_to_topic is  *)
(* the same user's unsubscribe_from_topic of the same topic, it is         *)
(* answered 200 and takes away exactly the row the subscribe added, the    *)
(* user holding no row afterwards; when the request served after that is   *)
(* an add_member_to_topic for this user by a superuser, owner or admin of  *)
(* the topic, it is answered 200 and adds one row with the requested role. *)
(***************************************************************************)
C18_SubscribeUnsubscribeRoundTrip ==
    [][ /\ ( /\ req.op = "subscribe_to_topic"
             /\ resp.code = 200
             /\ req'.op = "unsubscribe_from_topic"
             /\ req'.actor = req.actor
             /\ req'.args = req.args )
           => /\ resp'.code = 200
              /\ members' (+) OneRow(req.args[1], req.actor, MEMBER) = members
              /\ PairRows(members', req.args[1], req.actor) = {}
        /\ ( /\ req.op = "unsubscribe_from_topic"
             /\ resp.code = 200
             /\ req'.op = "add_member_to_topic"
             /\ req'.args[1] = req.args[1]
             /\ req'.args[2] = req.actor
             /\ MayAdminister(req'.actor, req.args[1]) )
           => /\ resp'.code = 200
              /\ members' = members (+)
                    OneRow(req.args[1], req.actor, req'.args[3])
      ]_vars

\* a user left a topic and holds no row in it; the topic keeps its owner's
\* row only
C18_Witness ==
    /\ req.op = "unsubscribe_from_topic"
    /\ resp.code = 200
    /\ PairRows(members, req.args[1], req.actor) = {}
    /\ \E x \in topics :
          /\ x.id = req.args[1]
          /\ members = OneRow(x.id, x.creator_id, OWNER)

(***************************************************************************)
(* Joining a topic as the code performs it: the lookup of the membership   *)
(* and the write are separate statements, and another request may run      *)
(* between them.  topic_members has no unique index on (topic_id,          *)
(* user_id).                                                               *)
(***************************************************************************)
\* the request of pid p that is in flight, if any
InFlight(p, op) == {f \in inflight : f.pid = p /\ f.op = op}

\* the request f is answered with r
Answer(f, r) ==
    /\ inflight' = inflight \ {f}
    /\ req' = [op |-> f.op, actor |-> f.actor, args |-> f.args]
    /\ resp' = r

\* the request is put in flight, holding what its lookup found
Suspend(p, op, a, args, found) ==
    /\ inflight' = inflight \cup
          {[pid |-> p, op |-> op, actor |-> a, args |-> args, found |-> found]}
    /\ UNCHANGED <<db, req, resp>>

\* POST /topics/{topic_id}/subscribe, up to the lookup of the membership
SubscribeLookup(p, a, t) ==
    /\ p \notin Busy
    /\ IF TopicRows(t) = {}
       THEN /\ Reply("subscribe_to_topic", a, <<t>>, Error(404, "Topic not found"))
            /\ UNCHANGED db
       ELSE \E existing \in First(MembershipRows(members, t, a)) :
              IF existing # {}
              THEN /\ Reply("subscribe_to_topic", a, <<t>>,
                            Error(400, "Already subscribed to this topic"))
                   /\ UNCHANGED db
              ELSE Suspend(p, "subscribe_to_topic", a, <<t>>, existing)

\* POST /topics/{topic_id}/subscribe, from db.add(member) on
SubscribeCommit(p) ==
    \E f \in InFlight(p, "subscribe_to_topic") :
      /\ members' = members (+)
            Row([topic_id |-> f.args[1], user_id |-> f.actor, role |-> MEMBER])
      /\ Answer(f, Ok("subscribed", <<[user_id |-> f.actor, role |-> MEMBER]>>))
      /\ UNCHANGED <<users, topics, nextTopicId, tasks, nextTaskId>>

\* POST /topics/{topic_id}/members, up to the lookup of the membership
AddMemberLookup(p, a, t, u, role) ==
    /\ p \notin Busy
    /\ IF TopicRows(t) = {}
       THEN /\ Reply("add_member_to_topic", a, <<t, u, role>>, Error(404, "Topic not found"))
            /\ UNCHANGED db
       ELSE \E current_membership \in First(MembershipRows(members, t, a)) :
              IF ~IsAdmin(current_membership) /\ ~IsSuperuser(a)
              THEN /\ Reply("add_member_to_topic", a, <<t, u, role>>,
                            Error(403, "Not authorized to add members"))
                   /\ UNCHANGED db
              ELSE IF UserRows(u) = {}
              THEN /\ Reply("add_member_to_topic", a, <<t, u, role>>, Error(404, "User not found"))
                   /\ UNCHANGED db
              ELSE \E existing \in First(MembershipRows(members, t, u)) :
                     Suspend(p, "add_member_to_topic", a, <<t, u, role>>, existing)

\* POST /topics/{topic_id}/members, from the write on: the row the lookup
\* found has its role set (a row of the pair, no row being deleted
\* meanwhile), or a row is inserted
AddMemberCommit(p) ==
    \E f \in InFlight(p, "add_member_to_topic") :
      LET t == f.args[1]
          u == f.args[2]
          role == f.args[3]
      IN  /\ IF f.found # {}
             THEN \E existing \in First(MembershipRows(members, t, u)) :
                    members' = (members (-) SetToBag(existing)) (+)
                       Row([topic_id |-> t, user_id |-> u, role |-> role])
             ELSE members' = members (+)
                       Row([topic_id |-> t, user_id |-> u, role |-> role])
          /\ Answer(f, Ok("member_added", <<[user_id |-> u, role |-> role]>>))
          /\ UNCHANGED <<users, topics, nextTopicId, tasks, nextTaskId>>

\* the topic that is joined: topic 2, where user 2 holds no membership
JoinTopic == 2

NextJoin ==
    \/ \E p \in Pids, a \in Joiners : SubscribeLookup(p, a, JoinTopic)
    \/ \E p \in Pids : SubscribeCommit(p)
    \/ \E p \in Pids, a \in UserIds, u \in Joiners \cup {GhostId},
          role \in {MEMBER, ADMIN} : AddMemberLookup(p, a, JoinTopic, u, role)
    \/ \E p \in Pids : AddMemberCommit(p)

SpecJoin == InitTasks /\ [][NextJoin]_vars

(***************************************************************************)
(* C19.  With the lookup and the write of subscribe_to_topic and           *)
(* add_member_to_topic as separate steps and two requests in flight, every *)
(* (topic, user) pair has at most one membership row.  Two requests for    *)
(* one pair can both run their lookup before either writes, and both       *)
(* insert, so this fails.                                                  *)
(***************************************************************************)
C19_OneRowPerPairUnderOverlap ==
    \A t \in TopicIds, u \in UserIds :
        Count(members, PairRows(members, t, u)) <= 1

(***************************************************************************)
(* What an admin can do alone.  The store holds the two topics; the only   *)
(* requests are those of user 3, admin of topic 1 and no superuser.        *)
(***************************************************************************)
\* the users that are admin of topic 1 in TwoTopics
TopicAdmins == {3}

NextAdmin ==
    \/ \E a \in TopicAdmins, t \in TopicIds : Subscribe(a, t)
    \/ \E a \in TopicAdmins, t \in TopicIds : Unsubscribe(a, t)
    \/ \E a \in TopicAdmins, t \in TopicIds, u \in Joiners \cup {GhostId},
          role \in TopicRole : AddMember(a, t, u, role)
    \/ \E a \in TopicAdmins, t \in TopicIds, u \in Joiners \cup {GhostId} :
          RemoveMember(a, t, u)
    \/ \E a \in TopicAdmins, t \in TopicIds : DeleteTopic(a, t)
    \/ \E a \in TopicAdmins, t \in TopicIds, topic_data \in TopicPayloads :
          UpdateTopic(a, t, topic_data)

SpecAdmin == InitTasks /\ [][NextAdmin]_vars

(***************************************************************************)
(* C20.  Whatever requests the admin of topic 1 makes, topic 1 exists, its *)
(* creator holds role owner in it and nobody else does.                    *)
(* add_member_to_topic lets an admin write role owner to their own row and *)
(* any role to the owner's row, so this fails.                             *)
(***************************************************************************)
C20_AdminCannotTakeOver ==
    \E x \in topics :
      /\ x.id = TaskTopic
      /\ HoldsRole(members, x.id, x.creator_id, {OWNER})
      /\ \A r \in RowsOf(members, x.id) :
            r.role = OWNER => r.user_id = x.creator_id

(***************************************************************************)
(* Leaving a topic that holds tasks.  The store holds the two topics and a *)
(* task in each, whose worker is user 3; users join and leave the topics   *)
(* and members are removed.                                                *)
(***************************************************************************)
NextLeave ==
    \/ \E a \in Joiners, t \in TopicIds : Subscribe(a, t)
    \/ \E a \in Joiners, t \in TopicIds : Unsubscribe(a, t)
    \/ \E a \in UserIds, t \in TopicIds, u \in Joiners \cup {GhostId} :
          RemoveMember(a, t, u)

SpecLeave == InitDelete /\ [][NextLeave]_vars

(***************************************************************************)
(* C21.  An unsubscribe_from_topic or remove_member_from_topic step leaves *)
(* every task, topic and user row as it was; answered 200 it takes one     *)
(* membership row away, the row of the leaving or removed user in the      *)
(* topic, and otherwise it leaves the memberships as they were.            *)
(***************************************************************************)
C21_LeavingKeepsTasks ==
    [][ req'.op \in {"unsubscribe_from_topic", "remove_member_from_topic"} =>
          LET t == req'.args[1]
              u == IF req'.op = "unsubscribe_from_topic"
                   THEN req'.actor ELSE req'.args[2]
          IN  /\ tasks' = tasks
              /\ topics' = topics
              /\ users' = users
              /\ IF resp'.code = 200
                 THEN \E r \in PairRows(members, t, u) :
                        members' (+) SetToBag({r}) = members
                 ELSE members' = members
      ]_vars

\* a member was removed from a topic that holds a task whose worker they are
C21_Witness ==
    /\ req.op = "remove_member_from_topic"
    /\ resp.code = 200
    /\ PairRows(members, req.args[1], req.args[2]) = {}
    /\ \E k \in tasks : k.topic_id = req.args[1] /\ k.worker_id = req.args[2]

(***************************************************************************)
(* The copies of a task.  The store holds the two topics and one task in   *)
(* topic 1; the task is assigned once, and the source and the copies have  *)
(* their status set and are deleted.                                       *)
(***************************************************************************)
\* the status strings sent: the three the clients use, and another one
Statuses == {PENDING, "in_progress", "completed", "on hold"}

\* the bodies of the update requests: a status
StatusPayloads == {[status |-> s] : s \in Statuses}

\* the worker_ids of the assign requests
CopyWorkerLists == {<<3, 2>>, <<3, GhostId, 3>>}

\* ids of the source and its copies
CopyIds == 1..3

NextCopies ==
    \/ /\ nextTaskId = 2
       /\ \E a \in Joiners, ws \in CopyWorkerLists : AssignTask(a, 1, ws)
    \/ \E a \in UserIds, id \in CopyIds, task_data \in StatusPayloads :
          UpdateTask(a, id, task_data)
    \/ \E a \in Joiners, id \in CopyIds : DeleteTask(a, id)

SpecCopies == InitAssign /\ [][NextCopies]_vars

(***************************************************************************)
(* C22.  An update_task or delete_task step changes no task but the one    *)
(* whose id the request names: every other task, the source and the copies *)
(* of an assignment among them, is the same row afterwards, and no row     *)
(* appears.                                                                *)
(***************************************************************************)
C22_CopiesAreIndependent ==
    [][ req'.op \in {"update_task", "delete_task"} =>
          /\ {k \in tasks : k.id # req'.args[1]} =
             {k \in tasks' : k.id # req'.args[1]}
          /\ Cardinality({k \in tasks' : k.id = req'.args[1]}) <=
             Cardinality({k \in tasks : k.id = req'.args[1]})
      ]_vars

\* one of two copies was deleted; the source and the other copy are there
C22_Witness ==
    /\ req.op = "delete_task"
    /\ resp.code = 200
    /\ req.args[1] = 2
    /\ nextTaskId = 4
    /\ {k.id : k \in tasks} = {1, 3}
    /\ \A k \in tasks, j \in tasks : k.title = j.title

(***************************************************************************)
(* C23.  update_task that sends a status, by the task's worker or by a     *)
(* superuser, owner or admin of its topic, is answered 200 and sets the    *)
(* status to the sent string, whatever the status was and whatever the     *)
(* string is.                                                              *)
(***************************************************************************)
C23_AnyStatusFromAnyStatus ==
    [][ (req'.op = "update_task" /\ "status" \in DOMAIN req'.args[2]) =>
          \A task \in Stored(req'.args[1]) :
            (MayAdminister(req'.actor, task.topic_id)
               \/ task.worker_id = req'.actor) =>
               /\ resp'.code = 200
               /\ \E updated \in tasks' :
                     /\ updated.id = task.id
                     /\ updated.status = req'.args[2].status
                     /\ resp'.body = <<updated>>
      ]_vars

\* the task that was completed when the store was set up is pending again
C23_Witness ==
    /\ req.op = "update_task"
    /\ resp.code = 200
    /\ req.args[1] = 1
    /\ req.args[2].status = PENDING
    /\ \E k \in tasks : k.id = 1 /\ k.title = "t2" /\ k.status = PENDING

(***************************************************************************)
(* create_topic as the code performs it: the topic row is committed, then  *)
(* the creator's owner row is committed; the request may be stopped by a   *)
(* storage error between the two.                                          *)
(***************************************************************************)
\* POST /topics, up to the first commit
CreateTopicInsert(p, a, name) ==
    /\ p \notin Busy
    /\ LET topic == [id |-> nextTopicId, name |-> name, creator_id |-> a]
       IN  /\ topics' = topics \cup {topic}
           /\ nextTopicId' = nextTopicId + 1
           /\ inflight' = inflight \cup
                 {[pid |-> p, op |-> "create_topic", actor |-> a,
                   args |-> <<name>>, found |-> {topic}]}
    /\ UNCHANGED <<users, members, tasks, nextTaskId, req, resp>>

\* POST /topics, from the owner row on
CreateTopicEnroll(p) ==
    \E f \in InFlight(p, "create_topic") :
    \E topic \in f.found :
      /\ members' = members (+)
            Row([topic_id |-> topic.id, user_id |-> f.actor, role |-> OWNER])
      /\ Answer(f, Ok("topic_created",
            <<[id |-> topic.id, creator_id |-> f.actor, user_role |-> OWNER]>>))
      /\ UNCHANGED <<users, topics, nextTopicId, tasks, nextTaskId>>

\* faulty variant of CreateTopicStops: the topic row is taken back
CreateTopicStopsAndUndoes(p) ==
    \E f \in InFlight(p, "create_topic") :
      /\ topics' = topics \ f.found
      /\ Answer(f, Error(500, "Internal Server Error"))
      /\ UNCHANGED <<users, nextTopicId, members, tasks, nextTaskId>>

\* POST /topics, stopped by an error of the second commit: nothing is undone
CreateTopicStops(p) ==
    \E f \in InFlight(p, "create_topic") :
      /\ Answer(f, Error(500, "Internal Server Error"))
      /\ UNCHANGED db

NextCreate ==
    \/ /\ nextTopicId <= MaxTopics
       /\ \E p \in Pids, a \in Joiners, name \in TopicNames :
             CreateTopicInsert(p, a, name)
    \/ \E p \in Pids : CreateTopicEnroll(p)
    \/ \E p \in Pids : CreateTopicStops(p)
    \/ \E a \in Joiners, t \in TopicIds : Subscribe(a, t)
    \/ \E a \in UserIds, t \in TopicIds, topic_data \in TopicPayloads :
          UpdateTopic(a, t, topic_data)
    \/ \E a \in UserIds, t \in TopicIds : DeleteTopic(a, t)

SpecCreate == Init /\ [][NextCreate]_vars

\* the topics that exist and have no membership row
Memberless == {t \in ExistingTopicIds : RowsOf(members, t) = {}}

(***************************************************************************)
(* C24.  The first step of create_topic adds the topic row and no          *)
(* membership row; the second adds the creator's owner row; a create_topic *)
(* that stops between them is answered with an error and undoes nothing.   *)
(* A topic without membership rows gets one only through a successful      *)
(* request; while it has none, update_topic and delete_topic are answered  *)
(* 200 for a superuser and 403 without effect for anyone else, and         *)
(* subscribe_to_topic by any user is answered 200 and adds the user's      *)
(* member row.                                                             *)
(***************************************************************************)
C24_TopicWithoutOwner ==
    [][ /\ \A x \in topics' \ topics :
              x.id \notin ExistingTopicIds => RowsOf(members', x.id) = {}
        /\ \A f \in inflight \ inflight' :
              f.op = "create_topic" =>
                 \A topic \in f.found :
                    /\ topics' = topics
                    /\ IF resp'.code = 200
                       THEN members' = members (+)
                               OneRow(topic.id, f.actor, OWNER)
                       ELSE members' = members
        /\ \A t \in Memberless :
              /\ RowsOf(members', t) # {} => resp'.code = 200
              /\ (inflight' = inflight /\ req'.args[1] = t) =>
                    /\ req'.op \in {"update_topic", "delete_topic"} =>
                          IF req'.actor \in Superusers
                          THEN resp'.code = 200
                          ELSE /\ resp'.code = 403
                               /\ topics' = topics
                               /\ members' = members
                    /\ req'.op = "subscribe_to_topic" =>
                          /\ resp'.code = 200
                          /\ members' = members (+)
                                OneRow(t, req'.actor, MEMBER)
      ]_vars

\* no creation is in flight, and a user subscribed to a topic whose only
\* membership is now theirs, as member: its creation had stopped
C24_Witness ==
    /\ inflight = {}
    /\ req.op = "subscribe_to_topic"
    /\ resp.code = 200
    /\ req.args[1] \in ExistingTopicIds
    /\ members = OneRow(req.args[1], req.actor, MEMBER)

(***************************************************************************)
(* Requests of every kind on topic 1, its members and its tasks, many of   *)
(* them rejected: by users who lack the role, on rows that do not exist,   *)
(* for workers who are not members.                                        *)
(***************************************************************************)
\* the bodies of the create requests and of the update requests
RejectCreatePayloads == {d \in CreatePayloads : d.worker_id = 3}
RejectUpdatePayloads == {[status |-> "completed"], [worker_id |-> NoneId]}

NextReject ==
    \/ \E a \in Joiners : Subscribe(a, TaskTopic)
    \/ \E a \in Joiners : Unsubscribe(a, TaskTopic)
    \/ \E a \in Joiners, u \in {3, GhostId}, role \in {ADMIN, MEMBER} :
          AddMember(a, TaskTopic, u, role)
    \/ \E a \in Joiners, u \in Joiners \cup {GhostId} :
          RemoveMember(a, TaskTopic, u)
    \/ \E a \in Joiners, topic_data \in TopicPayloads :
          UpdateTopic(a, TaskTopic, topic_data)
    \/ \E a \in Joiners : DeleteTopic(a, TaskTopic)
    \/ /\ nextTaskId <= MaxTasks
       /\ \E a \in Joiners, task_data \in RejectCreatePayloads :
             CreateTask(a, task_data)
    \/ \E a \in Joiners, id \in TaskIds, task_data \in RejectUpdatePayloads :
          UpdateTask(a, id, task_data)
    \/ \E a \in Joiners, id \in TaskIds : DeleteTask(a, id)
    \/ \E a \in Joiners, id \in TaskIds :
          /\ AssignTask(a, id, <<3>>)
          /\ nextTaskId' <= MaxTasks + 1

SpecReject == InitTasks /\ [][NextReject]_vars

\* the answers that reject a request
Rejections == {400, 403, 404}

(***************************************************************************)
(* C25.  A request answered 400, 403 or 404 leaves the users, the topics,  *)
(* the membership rows and the tasks exactly as they were.                 *)
(***************************************************************************)
C25_RejectedRequestsWriteNothing ==
    [][ resp'.code \in Rejections =>
          /\ users' = users
          /\ topics' = topics
          /\ members' = members
          /\ tasks' = tasks
      ]_vars

\* a create_task was rejected because its worker is not a member
C25_Witness ==
    /\ req.op = "create_task"
    /\ resp.code = 400
    /\ PairRows(members, req.args[1].topic_id, req.args[1].worker_id) = {}
    /\ HoldsRole(members, req.args[1].topic_id, req.actor, {OWNER, ADMIN})

(***************************************************************************)
(* update_task as the code performs it when requests overlap: the row and  *)
(* the actor's membership are read and update_data is computed; later the  *)
(* session is committed.  The commit writes the columns whose value, as    *)
(* set by the request, differs from the value the request had read: the    *)
(* session issues no UPDATE for a column set to the value it loaded.       *)
(***************************************************************************)
\* PUT /tasks/{task_id}, up to the setattr loop
UpdateTaskRead(p, a, id, task_data) ==
    /\ p \notin Busy
    /\ IF TaskRows(id) = {}
       THEN /\ Reply("update_task", a, <<id, task_data>>, Error(404, "Task not found"))
            /\ UNCHANGED db
       ELSE \E task \in TaskRows(id) :
            \E membership \in First(MembershipRows(members, task.topic_id, a)) :
              LET is_admin == IsAdmin(membership)
                  is_worker == task.worker_id = a
                  is_superuser == IsSuperuser(a)
              IN  IF ~is_admin /\ ~is_worker /\ ~is_superuser
                  THEN /\ Reply("update_task", a, <<id, task_data>>,
                                Error(403, "Not authorized to update this task"))
                       /\ UNCHANGED db
                  ELSE LET update_data ==
                             IF is_worker /\ ~is_admin /\ ~is_superuser
                             THEN StatusOnly(task_data)
                             ELSE task_data
                       IN  Suspend(p, "update_task", a, <<id, task_data>>,
                                   [task |-> task, update_data |-> update_data])

\* the columns a commit writes: those set to a value other than the one read
NetChange(task, update_data) ==
    [k \in {c \in DOMAIN update_data : update_data[c] # task[c]} |->
        update_data[k]]

\* PUT /tasks/{task_id}, from db.commit() on
UpdateTaskCommit(p) ==
    \E f \in InFlight(p, "update_task") :
      IF TaskRows(f.args[1]) = {}
      THEN /\ Answer(f, Error(500, "Internal Server Error"))
           /\ UNCHANGED db
      ELSE \E row \in TaskRows(f.args[1]) :
             LET refreshed ==
                    SetAttrs(row, NetChange(f.found.task, f.found.update_data))
             IN  /\ tasks' = (tasks \ {row}) \cup {refreshed}
                 /\ Answer(f, Ok("task_updated", <<refreshed>>))
                 /\ UNCHANGED <<users, topics, nextTopicId, members, nextTaskId>>

\* the bodies of the overlapping update requests
RacePayloads ==
    { [status |-> PENDING], [status |-> "completed"],
      [title |-> "t2", status |-> "in_progress"] }

NextRace ==
    \/ \E a \in Joiners : Subscribe(a, TaskTopic)
    \/ \E a \in Joiners : Unsubscribe(a, TaskTopic)
    \/ \E p \in Pids, a \in UserIds, id \in AssignIds, task_data \in RacePayloads :
          UpdateTaskRead(p, a, id, task_data)
    \/ \E p \in Pids : UpdateTaskCommit(p)

SpecRace == InitAssign /\ [][NextRace]_vars

(***************************************************************************)
(* C26.  When an update_task request that overlapped another commits, it   *)
(* is answered 200, and every field it set holds, in the stored row, the   *)
(* value it sent: the request that commits last wins each field.           *)
(***************************************************************************)
C26_LastCommitWins ==
    [][ \A f \in inflight \ inflight' :
          f.op = "update_task" =>
             /\ resp'.code = 200
             /\ \E row \in tasks' :
                   /\ row.id = f.args[1]
                   /\ \A k \in DOMAIN f.found.update_data :
                         row[k] = f.found.update_data[k]
      ]_vars

=============================================================================
